---------------------------- MODULE Spec2Model ----------------------------
(* Model of the string analyser service (src/app.py): the analyser, the    *)
(* natural-language translator, and the five request handlers acting on    *)
(* the `strings` table.  A text is a sequence of one-character strings.    *)
EXTENDS Integers, Sequences, FiniteSets, TLC

VARIABLES store, clock, request, response, deleted

vars == <<store, clock, request, response, deleted>>

(* ------------------------------ bounds -------------------------------- *)
\* every text of at most MaxLen letters is a value of a create request
MaxLen == 1
\* number of create requests served (each reads the wall clock once)
MaxClock == 2
\* most query parameters one structured list request carries
MaxArgs == 2
\* largest number written in a natural-language query
MaxNumber == 10
\* most phrases joined into one natural-language query
MaxTokens == 2

(* --------------------------- text primitives -------------------------- *)
ValueChars == {"a", "A"}

Digits == <<"0", "1", "2", "3", "4", "5", "6", "7", "8", "9">>

DigitChars == {Digits[i] : i \in 1..10}

IsDigit(c) == c \in DigitChars

DigitValue(c) == (CHOOSE i \in 1..10 : Digits[i] = c) - 1

LowerLetters ==
  <<"a","b","c","d","e","f","g","h","i","j","k","l","m",
    "n","o","p","q","r","s","t","u","v","w","x","y","z">>

UpperLetters ==
  <<"A","B","C","D","E","F","G","H","I","J","K","L","M",
    "N","O","P","Q","R","S","T","U","V","W","X","Y","Z">>

LowerChars == {LowerLetters[i] : i \in 1..26}

IsLowerLetter(c) == c \in LowerChars

\* the lower-case form of every upper-case letter
LowerOf == [c \in {UpperLetters[i] : i \in 1..26} |->
              LowerLetters[CHOOSE i \in 1..26 : UpperLetters[i] = c]]

\* str.lower() on one character
LowerChar(c) == IF c \in DOMAIN LowerOf THEN LowerOf[c] ELSE c

\* str.lower()
Lower(s) == [i \in 1..Len(s) |-> LowerChar(s[i])] \o <<>>

\* s[::-1]
Reverse(s) == [i \in 1..Len(s) |-> s[Len(s) + 1 - i]] \o <<>>

\* str.isspace() on one character
IsSpace(c) == c = " "

\* does pat occur in s starting at index i (1-based)
StartsWithAt(s, i, pat) ==
  /\ i >= 1
  /\ i + Len(pat) - 1 <= Len(s)
  /\ SubSeq(s, i, i + Len(pat) - 1) = pat

\* Python `pat in s`
Contains(s, pat) == \E i \in 1..(Len(s) + 1) : StartsWithAt(s, i, pat)

\* str(n) for a non-negative integer
RECURSIVE DigitsOf(_)
DigitsOf(n) ==
  IF n < 10 THEN <<Digits[n + 1]>>
  ELSE DigitsOf(n \div 10) \o <<Digits[(n % 10) + 1]>>

\* value of a non-empty run of decimal digits
RECURSIVE DigitsValue(_)
DigitsValue(ds) ==
  IF Len(ds) = 0 THEN 0
  ELSE 10 * DigitsValue(SubSeq(ds, 1, Len(ds) - 1)) + DigitValue(ds[Len(ds)])

\* all texts over an alphabet of length at most n
RECURSIVE TextsUpTo(_, _)
TextsUpTo(alphabet, n) ==
  IF n = 0 THEN {<<>>}
  ELSE LET shorter == TextsUpTo(alphabet, n - 1)
       IN  shorter \cup {Append(t, c) : t \in shorter, c \in alphabet}

\* longer values with whitespace: blank, a repeated letter, two words
SampleValues == {<<" ">>, <<"a", "a", " ">>, <<"a", " ", "A">>}

Values == TextsUpTo(ValueChars, MaxLen) \cup SampleValues

(* ------------------------------ analyser ------------------------------ *)
\* code point of a character, as value.encode() sees it
Ord(c) ==
  CASE c = "a" -> 97
    [] c = "A" -> 65
    [] c = " " -> 32
    [] OTHER   -> 63

\* hashlib.sha256(value.encode()).hexdigest(): a deterministic digest of the
\* encoded characters, collision free on the values of the model
RECURSIVE Sha256(_)
Sha256(value) ==
  IF Len(value) = 0 THEN 1
  ELSE 128 * Sha256(SubSeq(value, 1, Len(value) - 1)) + Ord(value[Len(value)])

\* len(value.split()): the maximal runs of non-whitespace characters
WordCount(value) ==
  Cardinality({i \in 1..Len(value) :
                 /\ ~IsSpace(value[i])
                 /\ (i = 1 \/ IsSpace(value[i - 1]))})

\* a dict is the sequence of its <<key, count>> items in insertion order
DictKeys(d) == {d[i][1] : i \in 1..Len(d)}

DictGet(d, k, default) ==
  IF k \in DictKeys(d)
    THEN d[CHOOSE i \in 1..Len(d) : d[i][1] = k][2]
    ELSE default

DictSet(d, k, v) ==
  IF k \in DictKeys(d)
    THEN [i \in 1..Len(d) |-> IF d[i][1] = k THEN <<k, v>> ELSE d[i]]
    ELSE Append(d, <<k, v>>)

\* char_freq[char] = 1: the earlier count is dropped
RECURSIVE CharFreqReset(_)
CharFreqReset(value) ==
  IF Len(value) = 0 THEN <<>>
  ELSE DictSet(CharFreqReset(SubSeq(value, 1, Len(value) - 1)), value[Len(value)], 1)

\* for char in value: char_freq[char] = char_freq.get(char, 0) + 1
RECURSIVE CharFreq(_)
CharFreq(value) ==
  IF Len(value) = 0 THEN <<>>
  ELSE LET d == CharFreq(SubSeq(value, 1, Len(value) - 1))
           c == value[Len(value)]
       IN  DictSet(d, c, DictGet(d, c, 0) + 1)

analyze_string(value) ==
  [ length                  |-> Len(value),
    is_palindrome           |-> (Lower(value) = Reverse(Lower(value))),
    unique_characters       |-> Cardinality({value[i] : i \in 1..Len(value)}),
    word_count              |-> WordCount(value),
    sha256_hash             |-> Sha256(value),
    character_frequency_map |-> CharFreq(value) ]

(* ------------- str(dict) and eval(text) of the frequency map ---------- *)
\* repr of one item: 'c': n
ItemRepr(item) == <<"'", item[1], "'", ":", " ">> \o DigitsOf(item[2])

\* str(d): {'a': 2, ' ': 1}
RECURSIVE ItemsRepr(_)
ItemsRepr(d) ==
  IF Len(d) = 0 THEN <<>>
  ELSE IF Len(d) = 1 THEN ItemRepr(d[1])
  ELSE ItemRepr(d[1]) \o <<",", " ">> \o ItemsRepr(Tail(d))

DictStr(d) == <<"{">> \o ItemsRepr(d) \o <<"}">>

\* length of the run of digits of t that starts at index i
RECURSIVE DigitRun(_, _)
DigitRun(t, i) ==
  IF i <= Len(t) /\ IsDigit(t[i]) THEN 1 + DigitRun(t, i + 1) ELSE 0

\* the items of the dict display t read from index i on
RECURSIVE EvalItems(_, _)
EvalItems(t, i) ==
  IF i > Len(t) \/ t[i] = "}" THEN <<>>
  ELSE IF t[i] = "," \/ t[i] = " " THEN EvalItems(t, i + 1)
  ELSE \* t[i] is the opening quote of a key
       LET k == t[i + 1]
           n == DigitRun(t, i + 5)
       IN  <<<<k, DigitsValue(SubSeq(t, i + 5, i + 4 + n))>>>>
             \o EvalItems(t, i + 5 + n)

\* eval(row["character_frequency_map"])
DictEval(t) == EvalItems(t, 2)

(* ------------------------- the strings table -------------------------- *)
\* the row create_string binds to the INSERT statement
MakeRow(value, properties, created_at) ==
  [ id                      |-> properties.sha256_hash,
    value                   |-> value,
    length                  |-> properties.length,
    is_palindrome           |-> IF properties.is_palindrome THEN 1 ELSE 0,
    unique_characters       |-> properties.unique_characters,
    word_count              |-> properties.word_count,
    sha256_hash             |-> properties.sha256_hash,
    character_frequency_map |-> DictStr(properties.character_frequency_map),
    created_at              |-> created_at ]

\* the table declared without its PRIMARY KEY and UNIQUE constraints
IntegrityErrorUnconstrained(table, row) == FALSE

\* id TEXT PRIMARY KEY, value TEXT UNIQUE NOT NULL
IntegrityError(table, row) ==
  \E i \in 1..Len(table) :
    table[i].id = row.id \/ table[i].value = row.value

IsValueRow(value, row) == row.value = value

IsOtherRow(value, row) == row.value # value

\* the statement without its WHERE clause
SelectByValueUnfiltered(table, value) == table

\* SELECT * FROM strings WHERE value = ?
SelectByValue(table, value) ==
  SelectSeq(table, LAMBDA row : IsValueRow(value, row))

\* a delete that is never committed
DeleteByValueUncommitted(table, value) == table

\* DELETE FROM strings WHERE value = ?
DeleteByValue(table, value) ==
  SelectSeq(table, LAMBDA row : IsOtherRow(value, row))

\* the JSON object the read handlers build from a row
RowJson(row) ==
  [ id         |-> row.id,
    value      |-> row.value,
    properties |->
      [ length                  |-> row.length,
        is_palindrome           |-> (row.is_palindrome # 0),
        unique_characters       |-> row.unique_characters,
        word_count              |-> row.word_count,
        sha256_hash             |-> row.sha256_hash,
        character_frequency_map |-> DictEval(row.character_frequency_map) ],
    created_at |-> row.created_at ]

StoredValues == {store[i].value : i \in 1..Len(store)}

(* --------------------------- requests --------------------------------- *)
EmptyDict == <<>>

JsonString(text) == [type |-> "string", text |-> text]

JsonNumber(text) == [type |-> "number", text |-> text]

\* JSON bodies a client posts to /strings
Bodies ==
  {EmptyDict, "other" :> JsonNumber(<<"1">>), "value" :> JsonNumber(<<"1">>)}
    \cup {"value" :> JsonString(v) : v \in Values}

\* the <path:string_value> converter accepts non-empty paths only
PathValues == Values \ {<<>>}

Request(op, body, path, args) ==
  [op |-> op, body |-> body, path |-> path, args |-> args]

ErrorResponse(status, message) ==
  [status |-> status, error |-> message, json |-> EmptyDict]

(* ---------------------------- handlers -------------------------------- *)
\* POST /strings
create_string(body) ==
  /\ clock < MaxClock
  /\ request' = Request("create", body, <<>>, EmptyDict)
  /\ IF DOMAIN body = {}
       THEN /\ response' = ErrorResponse(400, "Invalid request body")
            /\ UNCHANGED <<store, clock, deleted>>
     ELSE IF "value" \notin DOMAIN body
       THEN /\ response' = ErrorResponse(400, "Missing 'value' field")
            /\ UNCHANGED <<store, clock, deleted>>
     ELSE IF body["value"].type # "string"
       THEN /\ response' =
                 ErrorResponse(422, "Invalid data type for 'value' (must be string)")
            /\ UNCHANGED <<store, clock, deleted>>
     ELSE LET value      == body["value"].text
              properties == analyze_string(value)
              created_at == clock
              row        == MakeRow(value, properties, created_at)
          IN  /\ clock' = clock + 1
              /\ IF IntegrityError(store, row)
                   THEN /\ response' =
                             ErrorResponse(409, "String already exists in the system")
                        /\ UNCHANGED <<store, deleted>>
                   ELSE /\ store' = Append(store, row)
                        /\ response' =
                             [ status |-> 201, error |-> "",
                               json   |-> [ id         |-> properties.sha256_hash,
                                            value      |-> value,
                                            properties |-> properties,
                                            created_at |-> created_at ] ]
                        /\ deleted' =
                             [w \in DOMAIN deleted \ {value} |-> deleted[w]]

\* GET /strings/<path:string_value>
get_string(string_value) ==
  /\ request' = Request("get", EmptyDict, string_value, EmptyDict)
  /\ LET rows == SelectByValue(store, string_value)
     IN  IF Len(rows) = 0
           THEN response' = ErrorResponse(404, "String does not exist in the system")
           ELSE response' = [status |-> 200, error |-> "", json |-> RowJson(rows[1])]
  /\ UNCHANGED <<store, clock, deleted>>

\* DELETE /strings/<path:string_value>
delete_string(string_value) ==
  /\ request' = Request("delete", EmptyDict, string_value, EmptyDict)
  /\ LET rowcount == Len(SelectByValue(store, string_value))
     IN  /\ store' = DeleteByValue(store, string_value)
         /\ IF rowcount = 0
              THEN /\ response' =
                        ErrorResponse(404, "String does not exist in the system")
                   /\ UNCHANGED deleted
              ELSE /\ response' = [status |-> 204, error |-> "", json |-> EmptyDict]
                   /\ deleted' =
                        (string_value :> SelectByValue(store, string_value)[1].id)
                          @@ deleted
  /\ UNCHANGED clock

(* ------------------------ parameter parsing --------------------------- *)
\* str.strip() of leading and trailing whitespace
RECURSIVE Strip(_)
Strip(t) ==
  IF Len(t) = 0 THEN t
  ELSE IF IsSpace(t[1]) THEN Strip(Tail(t))
  ELSE IF IsSpace(t[Len(t)]) THEN Strip(SubSeq(t, 1, Len(t) - 1))
  ELSE t

HasSign(t) == Len(t) > 0 /\ (t[1] = "-" \/ t[1] = "+")

Unsigned(t) == IF HasSign(t) THEN Tail(t) ELSE t

\* int(text) raises ValueError unless text is an optionally signed run of digits
IsIntLiteral(text) ==
  LET u == Unsigned(Strip(text))
  IN  Len(u) > 0 /\ \A i \in 1..Len(u) : IsDigit(u[i])

\* int(text)
IntOf(text) ==
  LET t == Strip(text)
  IN  IF HasSign(t) /\ t[1] = "-"
        THEN 0 - DigitsValue(Unsigned(t))
        ELSE DigitsValue(Unsigned(t))

(* ------------------------------ SQL ----------------------------------- *)
\* SQLite LIKE: % matches any run, _ any one character, letters match
\* without regard to case
RECURSIVE LikeFrom(_, _, _, _)
LikeFrom(pattern, i, text, j) ==
  IF i > Len(pattern) THEN j > Len(text)
  ELSE IF pattern[i] = "%"
    THEN \E k \in j..(Len(text) + 1) : LikeFrom(pattern, i + 1, text, k)
  ELSE IF j > Len(text) THEN FALSE
  ELSE IF pattern[i] = "_" THEN LikeFrom(pattern, i + 1, text, j + 1)
  ELSE /\ LowerChar(pattern[i]) = LowerChar(text[j])
       /\ LikeFrom(pattern, i + 1, text, j + 1)

Like(text, pattern) == LikeFrom(pattern, 1, text, 1)

\* f"%{contains_character}%"
LikePattern(contains_character) == <<"%">> \o contains_character \o <<"%">>

\* the WHERE clause both list handlers assemble, on one row; params maps
\* the column tests present in the statement to their bound values
Where(row, params) ==
  /\ "is_palindrome" \in DOMAIN params => row.is_palindrome = params["is_palindrome"]
  /\ "min_length" \in DOMAIN params => row.length >= params["min_length"]
  /\ "max_length" \in DOMAIN params => row.length <= params["max_length"]
  /\ "word_count" \in DOMAIN params => row.word_count = params["word_count"]
  /\ "like" \in DOMAIN params => Like(row.value, params["like"])

\* conn.execute(query, params).fetchall()
Execute(table, params) == SelectSeq(table, LAMBDA row : Where(row, params))

\* data.append({...}) for every fetched row
DataOf(rows) == [i \in 1..Len(rows) |-> RowJson(rows[i])]

(* ----------------------- GET /strings (structured) -------------------- *)
IntParams == {"min_length", "max_length", "word_count"}

\* int(...) raises ValueError on some present integer parameter
HasValueError(args) ==
  \E k \in DOMAIN args \cap IntParams : ~IsIntLiteral(args[k])

\* is_palindrome.lower() == 'true'
IsPal(text) == Lower(text) = <<"t", "r", "u", "e">>

\* filters_applied as built inside the try block
FiltersApplied(args) ==
  [k \in DOMAIN args |->
     IF k = "is_palindrome" THEN IsPal(args[k])
     ELSE IF k \in IntParams THEN IntOf(args[k])
     ELSE args[k]]

\* the values bound to the statement built inside the try block
StructuredParams(args) ==
  LET present == DOMAIN args
      name(k) == IF k = "contains_character" THEN "like" ELSE k
  IN  [c \in {name(k) : k \in present} |->
         IF c = "is_palindrome"
           THEN (IF IsPal(args["is_palindrome"]) THEN 1 ELSE 0)
         ELSE IF c = "like" THEN LikePattern(args["contains_character"])
         ELSE IntOf(args[c])]

get_all_strings(args) ==
  /\ request' = Request("list", EmptyDict, <<>>, args)
  /\ IF HasValueError(args)
       THEN response' =
              ErrorResponse(400, "Invalid query parameter values or types")
       ELSE LET data == DataOf(Execute(store, StructuredParams(args)))
            IN  response' =
                  [ status |-> 200, error |-> "",
                    json   |-> [ data            |-> data,
                                 count           |-> Len(data),
                                 filters_applied |-> FiltersApplied(args) ] ]
  /\ UNCHANGED <<store, clock, deleted>>

(* ------------------- natural-language translation --------------------- *)
TxtPalindrom == <<"p","a","l","i","n","d","r","o","m">>

TxtSingleWord == <<"s","i","n","g","l","e"," ","w","o","r","d">>

TxtTwoWord == <<"t","w","o"," ","w","o","r","d">>

Txt2Word == <<"2"," ","w","o","r","d">>

TxtLongerThan == <<"l","o","n","g","e","r"," ","t","h","a","n"," ">>

TxtShorterThan == <<"s","h","o","r","t","e","r"," ","t","h","a","n"," ">>

TxtContain == <<"c","o","n","t","a","i","n">>

TxtThe == <<"t","h","e"," ">>

TxtLetter == <<"l","e","t","t","e","r"," ">>

TxtCharacter == <<"c","h","a","r","a","c","t","e","r"," ">>

TxtFirstVowel == <<"f","i","r","s","t"," ","v","o","w","e","l">>

\* re.search(r"<phrase>(\d+)", text): index of the first digit of the
\* leftmost match, 0 when there is none
NumberMatch(text, phrase) ==
  LET hits == {i \in 1..Len(text) :
                 /\ StartsWithAt(text, i, phrase)
                 /\ DigitRun(text, i + Len(phrase)) > 0}
  IN  IF hits = {} THEN 0
      ELSE (CHOOSE i \in hits : \A j \in hits : i <= j) + Len(phrase)

\* (\d) in place of (\d+): only the first digit is captured
NumberGroupOneDigit(text, at) == DigitValue(text[at])

\* int(match.group(1)): the digits are taken greedily
NumberGroup(text, at) == DigitsValue(SubSeq(text, at, at + DigitRun(text, at) - 1))

\* the ways contain(?:s|ing)? (?:the )?(?:letter |character )? can be taken,
\* in the order the backtracking matcher tries them
ContainPrefixes ==
  LET suffixes == << <<"s">>, <<"i", "n", "g">>, <<>> >>
      articles == << TxtThe, <<>> >>
      nouns    == << TxtLetter, TxtCharacter, <<>> >>
  IN  [n \in 1..18 |->
         TxtContain \o suffixes[((n - 1) \div 6) + 1] \o <<" ">>
           \o articles[(((n - 1) \div 3) % 2) + 1]
           \o nouns[((n - 1) % 3) + 1]] \o <<>>

\* does alternative n of the pattern match at index i
ContainMatchAt(text, i, n) ==
  /\ StartsWithAt(text, i, ContainPrefixes[n])
  /\ i + Len(ContainPrefixes[n]) <= Len(text)
  /\ IsLowerLetter(text[i + Len(ContainPrefixes[n])])

\* re.search(char_pattern, text).group(1), <<>> when there is no match
ContainGroup(text) ==
  LET starts == {i \in 1..Len(text) : StartsWithAt(text, i, TxtContain)}
      hits   == {i \in starts : \E n \in 1..18 : ContainMatchAt(text, i, n)}
  IN  IF hits = {} THEN <<>>
      ELSE LET i == CHOOSE h \in hits : \A j \in hits : h <= j
               n == CHOOSE m \in 1..18 :
                      /\ ContainMatchAt(text, i, m)
                      /\ \A l \in 1..(m - 1) : ~ContainMatchAt(text, i, l)
           IN  <<text[i + Len(ContainPrefixes[n])]>>

\* the first-vowel rule placed before the containment rule
parse_natural_language_vowel_first(query) ==
  LET query_lower == Lower(query)
      f1 == IF Contains(query_lower, TxtPalindrom)
              THEN "is_palindrome" :> TRUE ELSE EmptyDict
      f2 == IF Contains(query_lower, TxtSingleWord) THEN "word_count" :> 1
            ELSE IF Contains(query_lower, TxtTwoWord)
                      \/ Contains(query_lower, Txt2Word)
              THEN "word_count" :> 2
            ELSE EmptyDict
      m3 == NumberMatch(query_lower, TxtLongerThan)
      f3 == IF m3 # 0
              THEN "min_length" :> (NumberGroup(query_lower, m3) + 1)
              ELSE EmptyDict
      m4 == NumberMatch(query_lower, TxtShorterThan)
      f4 == IF m4 # 0
              THEN "max_length" :> (NumberGroup(query_lower, m4) - 1)
              ELSE EmptyDict
      g5 == ContainGroup(query_lower)
      f5 == IF g5 # <<>> THEN "contains_character" :> g5 ELSE EmptyDict
      f6 == IF Contains(query_lower, TxtFirstVowel)
              THEN "contains_character" :> <<"a">> ELSE EmptyDict
  IN  f5 @@ f6 @@ f4 @@ f3 @@ f2 @@ f1

parse_natural_language(query) ==
  LET query_lower == Lower(query)
      f1 == IF Contains(query_lower, TxtPalindrom)
              THEN "is_palindrome" :> TRUE ELSE EmptyDict
      f2 == IF Contains(query_lower, TxtSingleWord) THEN "word_count" :> 1
            ELSE IF Contains(query_lower, TxtTwoWord)
                      \/ Contains(query_lower, Txt2Word)
              THEN "word_count" :> 2
            ELSE EmptyDict
      m3 == NumberMatch(query_lower, TxtLongerThan)
      f3 == IF m3 # 0
              THEN "min_length" :> (NumberGroup(query_lower, m3) + 1)
              ELSE EmptyDict
      m4 == NumberMatch(query_lower, TxtShorterThan)
      f4 == IF m4 # 0
              THEN "max_length" :> (NumberGroup(query_lower, m4) - 1)
              ELSE EmptyDict
      g5 == ContainGroup(query_lower)
      f5 == IF g5 # <<>> THEN "contains_character" :> g5 ELSE EmptyDict
      f6 == IF Contains(query_lower, TxtFirstVowel)
              THEN "contains_character" :> <<"a">> ELSE EmptyDict
  IN  f6 @@ f5 @@ f4 @@ f3 @@ f2 @@ f1

(* ------------- GET /strings/filter-by-natural-language ---------------- *)
\* the values bound to the statement built from the parsed filters
NaturalParams(filters) ==
  LET name(k) == IF k = "contains_character" THEN "like" ELSE k
  IN  [c \in {name(k) : k \in DOMAIN filters} |->
         IF c = "is_palindrome"
           THEN (IF filters["is_palindrome"] THEN 1 ELSE 0)
         ELSE IF c = "like" THEN LikePattern(filters["contains_character"])
         ELSE filters[c]]

\* the handler without its check for an empty filter set
filter_by_natural_language_unchecked(args) ==
  /\ request' = Request("natural", EmptyDict, <<>>, args)
  /\ IF "query" \notin DOMAIN args \/ args["query"] = <<>>
       THEN response' = ErrorResponse(400, "Missing 'query' parameter")
     ELSE \E filters \in {parse_natural_language(args["query"])} :
            IF FALSE
              THEN response' =
                     ErrorResponse(400, "Unable to parse natural language query")
              ELSE \E data \in {DataOf(Execute(store, NaturalParams(filters)))} :
                     response' =
                       [ status |-> 200, error |-> "",
                         json   |->
                           [ data  |-> data,
                             count |-> Len(data),
                             interpreted_query |->
                               [ original       |-> args["query"],
                                 parsed_filters |-> filters ] ] ]
  /\ UNCHANGED <<store, clock, deleted>>

filter_by_natural_language(args) ==
  /\ request' = Request("natural", EmptyDict, <<>>, args)
  /\ IF "query" \notin DOMAIN args \/ args["query"] = <<>>
       THEN response' = ErrorResponse(400, "Missing 'query' parameter")
     ELSE \E filters \in {parse_natural_language(args["query"])} :
            IF DOMAIN filters = {}
              THEN response' =
                     ErrorResponse(400, "Unable to parse natural language query")
              ELSE \E data \in {DataOf(Execute(store, NaturalParams(filters)))} :
                     response' =
                       [ status |-> 200, error |-> "",
                         json   |->
                           [ data  |-> data,
                             count |-> Len(data),
                             interpreted_query |->
                               [ original       |-> args["query"],
                                 parsed_filters |-> filters ] ] ]
  /\ UNCHANGED <<store, clock, deleted>>

(* ------------------------- request inputs ----------------------------- *)
\* texts a client sends for each query parameter of GET /strings
ArgTexts ==
  [ is_palindrome      |-> {<<"T","r","u","e">>, <<"f","a","l","s","e">>, <<"m","a","y","b","e">>},
    min_length         |-> {<<"2">>, <<"x">>},
    max_length         |-> {<<"+","1">>, <<"1",".","5">>},
    word_count         |-> {<<"1">>, <<"o","n","e">>},
    contains_character |-> {<<"a">>, <<"%">>, <<"_">>} ]

ArgNames == DOMAIN ArgTexts

\* query strings with at most MaxArgs of the parameters present
ListArgs ==
  UNION {[ks -> UNION {ArgTexts[k] : k \in ks}] : ks \in SUBSET ArgNames}

StructuredArgs ==
  {args \in ListArgs :
     /\ Cardinality(DOMAIN args) <= MaxArgs
     /\ \A k \in DOMAIN args : args[k] \in ArgTexts[k]}

Numbers == {0, 5, MaxNumber}

ContainPhrases == {<<"c","o","n","t","a","i","n","i","n","g"," ","t","h","e"," ","l","e","t","t","e","r"," ">>, <<"c","o","n","t","a","i","n","s"," ">>, <<"c","o","n","t","a","i","n"," ","t","h","e"," ","c","h","a","r","a","c","t","e","r"," ">>}

ContainLetters == {"a", "Z"}

\* phrases a natural-language query is put together from
Phrases ==
  {<<"s","t","r","i","n","g","s">>, <<"P","a","l","i","n","d","r","o","m","i","c">>, <<"s","i","n","g","l","e"," ","w","o","r","d">>, <<"t","w","o"," ","w","o","r","d","s">>, <<"2"," ","w","o","r","d","s">>, <<"b","a","n","a","n","a"," ","b","r","e","a","d">>, <<"F","i","r","s","t"," ","V","o","w","e","l">>}
    \cup {TxtLongerThan \o DigitsOf(n) : n \in Numbers}
    \cup {TxtShorterThan \o DigitsOf(n) : n \in Numbers}
    \cup {p \o <<c>> : p \in ContainPhrases, c \in ContainLetters}

\* the phrases of a query are separated by single spaces
RECURSIVE QueryTexts(_)
QueryTexts(n) ==
  IF n = 0 THEN {<<>>}
  ELSE LET shorter == QueryTexts(n - 1)
       IN  shorter \cup Phrases
             \cup {q \o <<" ">> \o p : q \in shorter \ {<<>>}, p \in Phrases}

\* query strings of GET /strings/filter-by-natural-language
NaturalArgs ==
  {EmptyDict, "query" :> <<>>}
    \cup {"query" :> q :
            q \in {<<"b","a","n","a","n","a"," ","b","r","e","a","d">>, <<"P","a","l","i","n","d","r","o","m","i","c"," ","s","t","r","i","n","g","s">>, <<"s","i","n","g","l","e"," ","w","o","r","d">>,
                   <<"t","w","o"," ","w","o","r","d","s">>, <<"s","t","r","i","n","g","s"," ","l","o","n","g","e","r"," ","t","h","a","n"," ","1">>,
                   <<"s","h","o","r","t","e","r"," ","t","h","a","n"," ","2">>, <<"c","o","n","t","a","i","n","i","n","g"," ","t","h","e"," ","l","e","t","t","e","r"," ","a">>,
                   <<"c","o","n","t","a","i","n","s"," ","Z">>, <<"F","i","r","s","t"," ","V","o","w","e","l">>,
                   <<"s","h","o","r","t","e","r"," ","t","h","a","n"," ","2"," ","t","h","a","t"," ","a","r","e"," ","p","a","l","i","n","d","r","o","m","e","s">>}}

Init ==
  /\ store = <<>>
  /\ clock = 0
  /\ request = Request("none", EmptyDict, <<>>, EmptyDict)
  /\ response = [status |-> 0, error |-> "", json |-> EmptyDict]
  /\ deleted = <<>>

Next ==
  \/ \E body \in Bodies : create_string(body)
  \/ \E v \in PathValues : get_string(v)
  \/ \E v \in PathValues : delete_string(v)

Spec == Init /\ [][Next]_vars

\* both list handlers over the stores create_string builds
NextQuery ==
  \/ \E body \in Bodies : create_string(body)
  \/ \E args \in StructuredArgs : get_all_strings(args)
  \/ \E args \in NaturalArgs : filter_by_natural_language(args)

SpecQuery == Init /\ [][NextQuery]_vars

\* the natural-language list handler over the stores create_string builds
NextNatural ==
  \/ \E body \in Bodies : create_string(body)
  \/ \E args \in NaturalArgs : filter_by_natural_language(args)

SpecNatural == Init /\ [][NextNatural]_vars

\* the translator alone, applied to every query of at most MaxTokens phrases
InitTranslate ==
  /\ store = <<>>
  /\ clock = 0
  /\ request \in {Request("translate", EmptyDict, <<>>, "query" :> q) :
                    q \in QueryTexts(MaxTokens)}
  /\ response = [status |-> 0, error |-> "", json |-> EmptyDict]
  /\ deleted = <<>>

translate ==
  /\ request.op = "translate"
  /\ response.status = 0
  /\ response' =
       [ status |-> 200, error |-> "",
         json   |-> [parsed_filters |->
                       parse_natural_language(request.args["query"])] ]
  /\ UNCHANGED <<store, clock, request, deleted>>

SpecParse == InitTranslate /\ [][translate]_vars

(* ============================ properties ============================== *)
Rows == {store[i] : i \in 1..Len(store)}

\* a step that served a create request with a string value
ServedCreate == request'.op = "create" /\ clock' # clock

(* ------------------------------- C1 ----------------------------------- *)
NoDuplicateValues ==
  \A i, j \in 1..Len(store) : store[i].value = store[j].value => i = j

CreateOutcome ==
  ServedCreate =>
    LET value == request'.body["value"].text
    IN  IF value \in StoredValues
          THEN response'.status = 409 /\ store' = store
          ELSE /\ response'.status = 201
               /\ Len(store') = Len(store) + 1
               /\ SubSeq(store', 1, Len(store)) = store
               /\ store'[Len(store')].value = value
               /\ store'[Len(store')].created_at = clock

\* C1: the store never holds two records with equal value; a create of a
\* stored value is answered 409 and leaves the store (created_at included)
\* as it was, a create of a value not stored is answered 201 and appends it
C1_DuplicateRejected == []NoDuplicateValues /\ [][CreateOutcome]_vars

\* a create was rejected as a duplicate of a record created earlier
C1_Witness ==
  /\ request.op = "create"
  /\ response.status = 409
  /\ \E row \in Rows :
       /\ row.value = request.body["value"].text
       /\ row.created_at < clock - 1

(* ------------------------------- C2 ----------------------------------- *)
DeleteOutcome ==
  request'.op = "delete" =>
    /\ request'.path \notin StoredValues =>
         response'.status = 404 /\ store' = store
    /\ request'.path \in DOMAIN deleted => response'.status = 404

\* C2: a delete of a value not in the store is answered 404 and leaves the
\* store unchanged; once a value was deleted, every delete of it before it
\* is created again is answered 404
C2_DeleteAbsent == [][DeleteOutcome]_vars

\* a second delete of a value that was deleted before
C2_Witness ==
  /\ request.op = "delete"
  /\ response.status = 404
  /\ request.path \in DOMAIN deleted
  /\ Len(store) > 0

(* ------------------------------- C9 ----------------------------------- *)
Occurrences(value, c) == Cardinality({i \in 1..Len(value) : value[i] = c})

RECURSIVE SumCounts(_)
SumCounts(d) == IF Len(d) = 0 THEN 0 ELSE d[1][2] + SumCounts(Tail(d))

RowAnalysed(row) ==
  LET value == row.value
      p     == analyze_string(value)
      freq  == DictEval(row.character_frequency_map)
  IN  /\ row.id = Sha256(value)
      /\ row.sha256_hash = Sha256(value)
      /\ row.length = Len(value)
      /\ row.length = p.length
      /\ (row.is_palindrome = 1) = p.is_palindrome
      /\ (row.is_palindrome = 1) =
           (\A i \in 1..Len(value) :
              LowerChar(value[i]) = LowerChar(value[Len(value) + 1 - i]))
      /\ row.is_palindrome \in {0, 1}
      /\ row.unique_characters = p.unique_characters
      /\ row.word_count = p.word_count
      /\ freq = p.character_frequency_map
      /\ \A i \in 1..Len(freq) : freq[i][2] = Occurrences(value, freq[i][1])
      /\ DictKeys(freq) = {value[i] : i \in 1..Len(value)}
      /\ SumCounts(freq) = row.length
      /\ Len(freq) = row.unique_characters

RowsKept == \A old \in Rows : \A new \in {store'[i] : i \in 1..Len(store')} :
              new.value = old.value => new = old

\* C9: every stored record's id and sha256_hash are the hash of its value
\* and its derived fields are those analyze_string gives for the value (the
\* frequency counts sum to length, their number is unique_characters); no
\* step changes the fields of a stored record
C9_RecordsAnalysed == [](\A row \in Rows : RowAnalysed(row)) /\ [][RowsKept]_vars

\* a stored record with a repeated character that is no palindrome, next to
\* one that is a palindrome only when case is ignored
C9_Witness ==
  /\ \E row \in Rows : row.unique_characters < row.length /\ row.is_palindrome = 0
  /\ \E row \in Rows : row.is_palindrome = 1 /\ row.value # Reverse(row.value)

(* ------------------------------- C10 ---------------------------------- *)
RecreateOutcome ==
  /\ (ServedCreate /\ request'.body["value"].text \in DOMAIN deleted) =>
        /\ response'.status = 201
        /\ response'.json.id = deleted[request'.body["value"].text]
        /\ request'.body["value"].text \in {store'[i].value : i \in 1..Len(store')}
  /\ (request'.op = "get" /\ request'.path \in DOMAIN deleted) =>
        response'.status = 404

\* C10: after a delete of a value succeeded, a lookup of it is answered 404,
\* and the next create of it is answered 201 with the identity the deleted
\* record had
C10_NoTombstone == [][RecreateOutcome]_vars

\* a value was created, deleted and created again
C10_Witness ==
  /\ request.op = "create"
  /\ response.status = 201
  /\ DOMAIN deleted = {}
  /\ clock = 2
  /\ Len(store) = 1
  /\ store[1].created_at = 1

(* ------------------------------- C3 ----------------------------------- *)
Listed == request.op \in {"list", "natural"} /\ response.status = 200

\* the filter set a successful list response reports
ResponseFilters ==
  IF request.op = "list"
    THEN response.json.filters_applied
    ELSE response.json.interpreted_query.parsed_filters

\* every present constraint holds of the record, containment being literal
Satisfies(row, filters) ==
  /\ "is_palindrome" \in DOMAIN filters =>
       (row.is_palindrome = 1) = filters["is_palindrome"]
  /\ "min_length" \in DOMAIN filters => row.length >= filters["min_length"]
  /\ "max_length" \in DOMAIN filters => row.length <= filters["max_length"]
  /\ "word_count" \in DOMAIN filters => row.word_count = filters["word_count"]
  /\ "contains_character" \in DOMAIN filters =>
       Contains(row.value, filters["contains_character"])

\* C3: a successful list response of either entry point holds exactly the
\* stored records that satisfy every present constraint, and no others
C3_ExactMatches ==
  Listed =>
    response.json.data =
      DataOf(SelectSeq(store, LAMBDA row : Satisfies(row, ResponseFilters)))

(* ------------------------------- C4 ----------------------------------- *)
\* C4: with a contains_character constraint c, every returned record's value
\* holds the exact character c
C4_LiteralContainment ==
  (Listed /\ "contains_character" \in DOMAIN ResponseFilters) =>
    \A k \in 1..Len(response.json.data) :
      Contains(response.json.data[k].value, ResponseFilters["contains_character"])

(* ------------------------------- C5 ----------------------------------- *)
BooleanLiterals == {<<"t", "r", "u", "e">>, <<"f", "a", "l", "s", "e">>}

\* the parameter is present but is no literal of its type
Malformed(args, k) ==
  \/ k = "is_palindrome" /\ Lower(args[k]) \notin BooleanLiterals
  \/ k \in IntParams /\ ~IsIntLiteral(args[k])

\* C5: a structured list request with a present parameter that is no literal
\* of its type is answered with the malformed-request error
C5_MalformedRejected ==
  (request.op = "list" /\ \E k \in DOMAIN request.args : Malformed(request.args, k))
    => /\ response.status = 400
       /\ response.error = "Invalid query parameter values or types"

(* ------------------------------- C6 ----------------------------------- *)
Unparseable == "Unable to parse natural language query"

\* what a request whose query text makes some rule fire is answered
ParsedOutcome(query) ==
  /\ response.status = 200
  /\ response.json.count = Len(response.json.data)
  /\ \A k \in 1..Len(response.json.data) :
       \E row \in Rows : response.json.data[k] = RowJson(row)
  /\ response.json.interpreted_query.original = query
  /\ response.json.interpreted_query.parsed_filters = parse_natural_language(query)

\* C6 as stated: the unparseable-query error is reported exactly when no rule
\* fires on the query text, and a text on which a rule fires is served
C6_UnparseableIffNoRule ==
  (request.op = "natural" /\ "query" \in DOMAIN request.args) =>
    LET query == request.args["query"]
        fired == DOMAIN parse_natural_language(query)
    IN  /\ (response.error = Unparseable) = (fired = {})
        /\ fired # {} => ParsedOutcome(query)

\* C6 amended: as stated for a non-empty query text; an absent or empty
\* query is answered with the missing-parameter error
C6_UnparseableIffNoRuleNonEmpty ==
  request.op = "natural" =>
    IF "query" \notin DOMAIN request.args \/ request.args["query"] = <<>>
      THEN response.status = 400 /\ response.error = "Missing 'query' parameter"
      ELSE LET query == request.args["query"]
               fired == DOMAIN parse_natural_language(query)
           IN  /\ (response.error = Unparseable) = (fired = {})
               /\ fired = {} => response.status = 400
               /\ fired # {} => ParsedOutcome(query)

\* a parsed query that selected none of the stored records
C6_Witness ==
  /\ request.op = "natural"
  /\ response.status = 200
  /\ Len(store) > 0
  /\ response.json.data = <<>>
  /\ response.json.count = 0

(* ------------------------------- C7 ----------------------------------- *)
Translated == request.op = "translate" /\ response.status = 200

QueryLower == Lower(request.args["query"])

ParsedFilters == response.json.parsed_filters

\* the text holds phrase followed by the number n at index i
NumberAt(text, phrase, n, i) ==
  /\ StartsWithAt(text, i, phrase \o DigitsOf(n))
  /\ ~(i + Len(phrase \o DigitsOf(n)) <= Len(text)
         /\ IsDigit(text[i + Len(phrase \o DigitsOf(n))]))

\* the text holds phrase followed by a digit at index i
DigitAt(text, phrase, i) ==
  \E d \in DigitChars : StartsWithAt(text, i, phrase \o <<d>>)

HasNumber(text, phrase, n) == \E i \in 1..Len(text) : NumberAt(text, phrase, n, i)

\* n is the number of the leftmost occurrence of phrase with a number
FirstNumber(text, phrase, n) ==
  \E i \in 1..Len(text) :
    /\ NumberAt(text, phrase, n, i)
    /\ \A j \in 1..(i - 1) : ~DigitAt(text, phrase, j)

\* C7 as stated: a text that holds 'longer than N' yields min_length N + 1,
\* one that holds 'shorter than N' yields max_length N - 1
C7_EveryNumber ==
  Translated =>
    \A n \in Numbers :
      /\ HasNumber(QueryLower, TxtLongerThan, n) =>
           /\ "min_length" \in DOMAIN ParsedFilters
           /\ ParsedFilters["min_length"] = n + 1
      /\ HasNumber(QueryLower, TxtShorterThan, n) =>
           /\ "max_length" \in DOMAIN ParsedFilters
           /\ ParsedFilters["max_length"] = n - 1

\* the rules other than the two length rules find nothing in the text
OnlyLengthRules(text) ==
  /\ ~Contains(text, TxtPalindrom)
  /\ ~Contains(text, <<" ", "w", "o", "r", "d">>)
  /\ ~Contains(text, TxtContain)
  /\ ~Contains(text, TxtFirstVowel)

\* C7 amended: N is the number of the leftmost 'longer than <number>'
\* ('shorter than <number>') of the text; a record of length N then fails the
\* constraint, and a text that triggers one rule only sets only its field
C7_LeftmostNumber ==
  Translated =>
    /\ \A n \in Numbers :
         /\ FirstNumber(QueryLower, TxtLongerThan, n) =>
              /\ "min_length" \in DOMAIN ParsedFilters
              /\ ParsedFilters["min_length"] = n + 1
              /\ ~(n >= ParsedFilters["min_length"])
         /\ FirstNumber(QueryLower, TxtShorterThan, n) =>
              /\ "max_length" \in DOMAIN ParsedFilters
              /\ ParsedFilters["max_length"] = n - 1
              /\ ~(n <= ParsedFilters["max_length"])
    /\ (\A i \in 1..Len(QueryLower) : ~DigitAt(QueryLower, TxtLongerThan, i))
         => "min_length" \notin DOMAIN ParsedFilters
    /\ (\A i \in 1..Len(QueryLower) : ~DigitAt(QueryLower, TxtShorterThan, i))
         => "max_length" \notin DOMAIN ParsedFilters
    /\ OnlyLengthRules(QueryLower) =>
         DOMAIN ParsedFilters \subseteq {"min_length", "max_length"}

\* 'longer than 10' alone was translated to min_length 11 and nothing else
C7_Witness ==
  /\ Translated
  /\ FirstNumber(QueryLower, TxtLongerThan, 10)
  /\ DOMAIN ParsedFilters = {"min_length"}
  /\ ParsedFilters["min_length"] = 11

(* ------------------------------- C8 ----------------------------------- *)
\* a containment phrase with the letter c starts at index i of the text
ContainAt(text, i, c) ==
  \E p \in ContainPhrases : StartsWithAt(text, i, Lower(p) \o <<c>>)

PhraseLetters == {LowerChar(c) : c \in ContainLetters}

\* c is the letter of the leftmost containment phrase of the text
FirstContain(text, c) ==
  \E i \in 1..Len(text) :
    /\ ContainAt(text, i, c)
    /\ \A j \in 1..(i - 1) : \A d \in PhraseLetters : ~ContainAt(text, j, d)

\* C8: a text with 'first vowel' yields contains_character 'a' whatever the
\* containment pattern captured; otherwise the captured letter is the
\* result; the result is never more than one character
C8_FirstVowelOverrides ==
  Translated =>
    /\ Contains(QueryLower, TxtFirstVowel) =>
         /\ "contains_character" \in DOMAIN ParsedFilters
         /\ ParsedFilters["contains_character"] = <<"a">>
    /\ ~Contains(QueryLower, TxtFirstVowel) =>
         /\ \A c \in PhraseLetters :
              FirstContain(QueryLower, c) =>
                /\ "contains_character" \in DOMAIN ParsedFilters
                /\ ParsedFilters["contains_character"] = <<c>>
         /\ (\A c \in PhraseLetters : ~FirstContain(QueryLower, c)) =>
              "contains_character" \notin DOMAIN ParsedFilters
    /\ "contains_character" \in DOMAIN ParsedFilters =>
         Len(ParsedFilters["contains_character"]) = 1

\* both rules matched, the containment pattern with the letter z
C8_Witness ==
  /\ Translated
  /\ Contains(QueryLower, TxtFirstVowel)
  /\ FirstContain(QueryLower, "z")
  /\ ParsedFilters["contains_character"] = <<"a">>

====
